---- MODULE Spec2Model ----
(***************************************************************************)
(* A model of the PFM codec of pxm (src/src/pfm.rs): the PFMBuilder, the   *)
(* header tokenizer and parser, encode/decode with the vertical row flip,  *)
(* PFM::write_into / PFM::read_from, and PXM::save / PXM::load of          *)
(* src/src/lib.rs.                                                         *)
(*                                                                         *)
(* Representation of the values of the program:                            *)
(*   - a byte buffer (&[u8], Vec<u8>) is a sequence of integers 0..255;    *)
(*   - a usize is the sequence of its decimal digits, the most significant *)
(*     first and no zero in front (0 is <<0>>), so that the whole range    *)
(*     0 .. 2^64 - 1 and the products that leave it can be written; a      *)
(*     length or an index of a buffer of the model is an integer;          *)
(*   - the program is built with or without overflow checks (the debug and *)
(*     the release profile): with them an arithmetic overflow panics,      *)
(*     without them the result wraps modulo 2^64;                          *)
(*   - a pixel sample (f32) is its IEEE-754 bit pattern, written as the    *)
(*     tuple of its four bytes, most significant first:                    *)
(*     1.0 = 0x3f800000 = <<63, 128, 0, 0>>;                               *)
(*   - the scale (f32) is its shortest round-tripping decimal, the text    *)
(*     Rust's Display prints: [neg, int, frac] with int the digits of the  *)
(*     integer part (no leading zero, "0" for none) and frac the digits of *)
(*     the fraction (no trailing zero); the infinities are                 *)
(*     [neg, special |-> "inf"] and NaN is [special |-> "NaN"];            *)
(*   - a Result is a record with tag "Ok" or "Err"; a panic (a failed      *)
(*     assert!, an out-of-range index or slice, an overflow under overflow *)
(*     checks) is the record with tag "Panic".                             *)
(***************************************************************************)
EXTENDS Bags, FiniteSets, Integers, Sequences, TLC

VARIABLES
    overflow_checks, \* the build profile: TRUE for debug, FALSE for release
    phase,      \* position of the caller: building, aborted, built, encoded, decoded, tokens
    builder,    \* the PFM value inside the PFMBuilder
    calls,      \* the arguments of the latest call of each builder setter
    built,      \* the result of PFMBuilder::build
    encoded,    \* the result of PFM::write_into or PXM::save
    file,       \* the bytes of the file that is written and read
    origin,     \* where the bytes of file come from; none: there is no file
    decoded,    \* the result of PFM::read_from or PXM::load
    tokInput,   \* the buffer handed to the latest read_until_space
    tokResult,  \* the result of the latest read_until_space
    tokBuffer   \* the buffer the next read_until_space is called on

vars == <<overflow_checks, phase, builder, calls, built, encoded, file, origin, decoded,
          tokInput, tokResult, tokBuffer>>

(***************************************************************************)
(* Bounds of the model.                                                    *)
(***************************************************************************)
MaxWidth == 2
MaxHeight == 3
MaxData == 9
MaxTokLen == 4
MaxExtra == 3

(***************************************************************************)
(* Results and error messages.                                             *)
(***************************************************************************)
ErrEof == "Reached EOF before finishing parsing"
ErrMagic1 == "Tht first character must be 'P'"
ErrMagic2 == "Tht second character must be 'F' or 'f'"
ErrWidth == "Invalid width"
ErrHeight == "Invalid height"
ErrScale == "Invalid scale"
ErrBuild == "The length of data is not equal to width * height * channels"
ErrDecodeSize == "Broken file. The length of image data is not equal to width * height * channels specified in the header"
ErrEncodeSize == "The length of image data is not equal to width * height * channels specified in the header"
ErrEncodeDim == "Invalid width or height"
ErrEncodeScale == "Invalid scaling factor"
ErrRead == "Unable to read from file"
ErrWrite == "Unable to write into the writer"
ErrFlush == "Unable to flush data"

None == [tag |-> "None"]
Panic == [tag |-> "Panic"]
Err(msg) == [tag |-> "Err", err |-> msg]

(***************************************************************************)
(* Bytes and text.                                                         *)
(***************************************************************************)
\* char::is_ascii_whitespace: space, tab, line feed, form feed, carriage return
IsAsciiWhitespace(b) == b \in {32, 9, 10, 12, 13}

IsDigit(b) == b >= 48 /\ b <= 57

(***************************************************************************)
(* Naturals of any size, as their decimal digits: a product of two usizes  *)
(* and the rounding of a decimal to an f32 go far beyond a machine word.   *)
(***************************************************************************)
\* the digits without the zeros in front, the last one kept
StripLeadingZeros(ds) ==
    LET nz == {i \in 1..Len(ds) : ds[i] # 0}
    IN  IF nz = {} THEN (IF ds = <<>> THEN <<>> ELSE <<0>>)
        ELSE SubSeq(ds, CHOOSE i \in nz : \A j \in nz : i <= j, Len(ds))

\* the digits without the zeros at the end
StripTrailingZeros(ds) ==
    LET nz == {i \in 1..Len(ds) : ds[i] # 0}
    IN  IF nz = {} THEN <<>>
        ELSE SubSeq(ds, 1, CHOOSE i \in nz : \A j \in nz : i >= j)

\* n zeros, none for an n below 1
Zeros(n) == IF n < 1 THEN <<>> ELSE [i \in 1..n |-> 0]

RECURSIVE DigitsOf(_)
DigitsOf(n) == IF n < 10 THEN <<n>> ELSE Append(DigitsOf(n \div 10), n % 10)

RECURSIVE NatOf(_)
NatOf(ds) ==
    IF ds = <<>> THEN 0 ELSE 10 * NatOf(SubSeq(ds, 1, Len(ds) - 1)) + ds[Len(ds)]

PadTo(a, n) == Zeros(n - Len(a)) \o a

\* x + y for strings of the same length, every digit from its column and the
\* carry into it: a column carries when it sums to 10 or more, or to 9 and the
\* next one carries
AddColumns(x, y) ==
    StripLeadingZeros([i \in 1..Len(x) |->
        (x[i] + y[i]
         + (IF \E j \in (i + 1)..Len(x) :
                    /\ x[j] + y[j] >= 10
                    /\ \A k \in (i + 1)..(j - 1) : x[k] + y[k] = 9
            THEN 1 ELSE 0)) % 10])

\* a + b
BigAdd(a, b) ==
    IF a = <<0>> THEN b
    ELSE IF b = <<0>> THEN a
    ELSE IF Len(a) <= 8 /\ Len(b) <= 8 THEN DigitsOf(NatOf(a) + NatOf(b))
    ELSE AddColumns(PadTo(a, 1 + (IF Len(a) > Len(b) THEN Len(a) ELSE Len(b))),
                    PadTo(b, 1 + (IF Len(a) > Len(b) THEN Len(a) ELSE Len(b))))

\* a - y for strings of the same length, a >= y: a column borrows when its
\* digit of a is the smaller, or the two are equal and the next column borrows
SubColumns(a, y) ==
    StripLeadingZeros([i \in 1..Len(a) |->
        (a[i] - y[i]
         - (IF \E j \in (i + 1)..Len(a) :
                    /\ a[j] < y[j]
                    /\ \A k \in (i + 1)..(j - 1) : a[k] = y[k]
            THEN 1 ELSE 0)
         + 10) % 10])

\* a - b, for a >= b
BigSub(a, b) ==
    IF b = <<0>> THEN a
    ELSE IF Len(a) <= 9 THEN DigitsOf(NatOf(a) - NatOf(b))
    ELSE SubColumns(a, PadTo(b, Len(a)))

BigLess(a, b) ==
    \/ Len(a) < Len(b)
    \/ /\ Len(a) = Len(b)
       /\ \E i \in 1..Len(a) : a[i] < b[i] /\ \A j \in 1..(i - 1) : a[j] = b[j]

BigLeq(a, b) == ~BigLess(b, a)

\* the sum of the products of the digits of a and b that fall in column t
MulColumn(a, b, t) ==
    BagCardinality(
        [i \in {i \in 1..Len(a) : t - i >= 1 /\ t - i <= Len(b) /\ a[i] * b[t - i] > 0}
            |-> a[i] * b[t - i]])

\* the digits d places from the right of every column, as a number
MulPart(columns, d) ==
    StripLeadingZeros([t \in 1..Len(columns) |-> (columns[t] \div (10 ^ d)) % 10]
                      \o Zeros(d))

\* the columns added up: a column is below 10^4, its digits go to four
\* numbers, each one place above the other
MulSum(columns) ==
    BigAdd(BigAdd(MulPart(columns, 0), MulPart(columns, 1)),
           BigAdd(MulPart(columns, 2), MulPart(columns, 3)))

\* a * b for strings of fewer than a hundred digits
BigMul(a, b) ==
    IF a = <<0>> \/ b = <<0>> THEN <<0>>
    ELSE IF a = <<1>> THEN b
    ELSE IF b = <<1>> THEN a
    ELSE IF Len(a) + Len(b) <= 9 THEN DigitsOf(NatOf(a) * NatOf(b))
    ELSE MulSum([t \in 1..(Len(a) + Len(b)) |-> MulColumn(a, b, t)] \o <<>>)

RECURSIVE BigPow2(_)
BigPow2(k) ==
    IF k <= 0 THEN <<1>>
    ELSE IF k <= 30 THEN DigitsOf(2 ^ k)
    ELSE BigMul(DigitsOf(2 ^ 30), BigPow2(k - 30))

BigPow10(k) == IF k <= 0 THEN <<1>> ELSE <<1>> \o Zeros(k)

RECURSIVE QuotientDigit(_, _, _, _)
\* the largest d with lo <= d < hi and d * shifted <= r, sought by halving
QuotientDigit(r, shifted, lo, hi) ==
    IF hi - lo <= 1 THEN lo
    ELSE IF BigLeq(BigMul(<<(lo + hi) \div 2>>, shifted), r)
    THEN QuotientDigit(r, shifted, (lo + hi) \div 2, hi)
    ELSE QuotientDigit(r, shifted, lo, (lo + hi) \div 2)

RECURSIVE DivFrom(_, _, _, _)
\* a step of the long division: digit is the next digit of the quotient
DivStep(r, b, q, k, shifted, digit) ==
    DivFrom(BigSub(r, BigMul(<<digit>>, shifted)), b, Append(q, digit), k - 1)

\* long division: q holds the digits of the quotient found so far, r what is
\* left of the dividend, k the places still to go; the next digit is the
\* largest d with d * b * 10^k <= r
DivFrom(r, b, q, k) ==
    IF k < 0 THEN [q |-> StripLeadingZeros(q), r |-> r]
    ELSE IF r = <<0>> THEN [q |-> StripLeadingZeros(q \o Zeros(k + 1)), r |-> r]
    ELSE DivStep(r, b, q, k, b \o Zeros(k), QuotientDigit(r, b \o Zeros(k), 0, 10))

\* the quotient q and the remainder r of a divided by b
DivMod(a, b) ==
    IF BigLess(a, b) THEN [q |-> <<0>>, r |-> a]
    ELSE IF Len(a) <= 9
    THEN [q |-> DigitsOf(NatOf(a) \div NatOf(b)), r |-> DigitsOf(NatOf(a) % NatOf(b))]
    ELSE DivFrom(a, b, <<>>, Len(a) - Len(b))


(***************************************************************************)
(* usize: 64 bits.                                                         *)
(***************************************************************************)
UsizeModulus == BigPow2(64)

\* a length or an index of the model as a usize
Usize(n) == DigitsOf(n)

\* the exact result n of an operation on usizes does not fit a usize: a panic
\* ("attempt to multiply with overflow") when the build checks overflow
Overflows(n) == BigLeq(UsizeModulus, n)

\* what is left of the exact result n when the build does not check overflow
\* (a number of fewer than 20 digits is below 2^64)
Wrapping(n) == IF Len(n) < 20 THEN n ELSE DivMod(n, UsizeModulus).r

\* the outcome of an operation on usizes whose exact result is n
Checked(n) == [value |-> Wrapping(n), overflowed |-> Overflows(n)]

\* format!("{}", n) of a usize: its decimal digits
FormatUsize(n) == [i \in 1..Len(n) |-> 48 + n[i]]

\* str::parse::<usize>: an optional '+', then one or more decimal digits that
\* write a number below 2^64
ParseUsize(token) ==
    LET body == IF token # <<>> /\ token[1] = 43 THEN Tail(token) ELSE token
        value == StripLeadingZeros([i \in 1..Len(body) |-> body[i] - 48])
    IN  IF body # <<>> /\ (\A i \in 1..Len(body) : IsDigit(body[i]))
           /\ ~Overflows(value)
        THEN [tag |-> "Ok", value |-> value]
        ELSE [tag |-> "Err"]

(***************************************************************************)
(* f32: a finite value is [neg, int, frac], the digits of the shortest     *)
(* decimal that rounds to it; the others are [neg, special |-> "inf"] and  *)
(* [special |-> "NaN"].                                                    *)
(***************************************************************************)
F32Inf(neg) == [neg |-> neg, special |-> "inf"]
F32NaN == [special |-> "NaN"]
F32Zero(neg) == [neg |-> neg, int |-> <<0>>, frac |-> <<>>]
F32IsFinite(x) == "special" \notin DOMAIN x
F32IsNaN(x) == x = F32NaN

\* the value digits * 10^ex written as integer and fraction digits
Canon(neg, digits, ex) ==
    LET padded == IF ex < 0 /\ Len(digits) <= -ex
                  THEN Zeros(1 - ex - Len(digits)) \o digits ELSE digits
        split == IF ex < 0 THEN Len(padded) + ex ELSE Len(padded)
    IN  [neg |-> neg,
         int |-> StripLeadingZeros(SubSeq(padded, 1, split)
                                   \o (IF ex > 0 THEN Zeros(ex) ELSE <<>>)),
         frac |-> StripTrailingZeros(SubSeq(padded, split + 1, Len(padded)))]

\* 2^k <= num / den
AtLeastPow2(num, den, k) ==
    IF k >= 0 THEN BigLeq(BigMul(den, BigPow2(k)), num)
    ELSE BigLeq(den, BigMul(num, BigPow2(-k)))

RECURSIVE Log2Between(_, _, _, _)
\* the largest k with 2^k <= num / den, given 2^lo <= num / den < 2^hi
Log2Between(num, den, lo, hi) ==
    IF hi - lo <= 1 THEN lo
    ELSE IF AtLeastPow2(num, den, (lo + hi) \div 2)
    THEN Log2Between(num, den, (lo + hi) \div 2, hi)
    ELSE Log2Between(num, den, lo, (lo + hi) \div 2)

\* the n with 10^(n-1) <= num / den < 10^n
DecimalLead(num, den) ==
    LET d == Len(num) - Len(den)
    IN  IF BigLeq(den \o Zeros(d), num \o Zeros(-d)) THEN d + 1 ELSE d

\* the largest k with 2^k <= num / den, sought between the bounds that the
\* decimal lead n gives: log2(10) lies between 3.3219 and 3.3220
Log2Near(num, den, n) ==
    Log2Between(num, den,
                IF n >= 1 THEN ((n - 1) * 33219) \div 10000
                ELSE ((n - 1) * 33220) \div 10000,
                1 + (IF n >= 0 THEN (n * 33220) \div 10000 ELSE (n * 33219) \div 10000))

FloorLog2(num, den) == Log2Near(num, den, DecimalLead(num, den))

\* the quotient q, of remainder r, of a division by b, rounded to the nearest
\* integer, a tie to the even one
RoundQuotient(q, r, b) ==
    IF BigLess(b, BigAdd(r, r)) \/ (BigAdd(r, r) = b /\ q % 2 = 1) THEN q + 1 ELSE q

RoundDivided(d, b) == RoundQuotient(NatOf(d.q), d.r, b)

\* a / b < 10^8 rounded to the nearest integer, a tie to the even one
RoundHalfEven(a, b) == RoundDivided(DivMod(a, b), b)

\* m * 2^e as an f32: 0, beyond f32::MAX, or the mantissa and the exponent
PackF32(m, e) ==
    IF m = 0 THEN [tag |-> "zero"]
    ELSE IF e > 104 THEN [tag |-> "inf"]
    ELSE [tag |-> "finite", m |-> m, e |-> e]

\* a mantissa rounded up to 2^24 is 2^23 with the next exponent
RoundCarry(m0, e0) == IF m0 = 2 ^ 24 THEN PackF32(2 ^ 23, e0 + 1) ELSE PackF32(m0, e0)

\* num / den in units of 2^e0, rounded
RoundMantissa(num, den, e0) ==
    RoundCarry(IF e0 >= 0 THEN RoundHalfEven(num, BigMul(den, BigPow2(e0)))
               ELSE RoundHalfEven(BigMul(num, BigPow2(-e0)), den),
               e0)

\* the exponent that leaves 24 bits of a value of binary lead k, -149 the least
RoundExponent(num, den, k) ==
    RoundMantissa(num, den, IF k - 23 > -149 THEN k - 23 ELSE -149)

\* the f32 nearest to num / den > 0: m * 2^e with m < 2^24 and e >= -149
RoundF32(num, den) == RoundExponent(num, den, FloorLog2(num, den))

\* x lies between low and high, the ends included when inclusive
Inside(x, low, high, inclusive) ==
    /\ BigLess(low, x) \/ (inclusive /\ low = x)
    /\ BigLess(x, high) \/ (inclusive /\ high = x)

RECURSIVE ShortestFrom(_, _, _)
\* lo and lo + 1 are the decimals of n digits around the value, down and up
\* tell which of them round to it; neither: one digit more
ShortestPick(m, e, n, p, step, lo, rest, down, up) ==
    IF down \/ up
    THEN [c |-> IF up /\ (~down \/ BigLeq(step, BigAdd(rest, rest))) THEN lo + 1 ELSE lo,
          p |-> p]
    ELSE ShortestFrom(m, e, n + 1)

\* the decimals that round to the value lie between low and high
ShortestAround(m, e, n, p, step, lo, rest, low, high) ==
    ShortestPick(m, e, n, p, step, lo, rest,
                 Inside(BigMul(DigitsOf(lo), step), low, high, m % 2 = 0),
                 Inside(BigMul(DigitsOf(lo + 1), step), low, high, m % 2 = 0))

\* In quarters of the unit in the last place the value is 4m; the decimals
\* that round to it lie between 4m - below and 4m + 2
ShortestBounds(m, e, n, p, unit, step, d, below) ==
    ShortestAround(m, e, n, p, step, NatOf(d.q), d.r,
                   BigMul(DigitsOf(4 * m - below), unit),
                   BigMul(DigitsOf(4 * m + 2), unit))

\* the value is 4m * unit, a decimal of n digits a multiple of step
ShortestScaled(m, e, n, p, unit, step) ==
    ShortestBounds(m, e, n, p, unit, step, DivMod(BigMul(DigitsOf(4 * m), unit), step),
                   IF m = 2 ^ 23 /\ e > -149 THEN 1 ELSE 2)

\* the last of n digits is at the decimal place p
ShortestPlaced(m, e, n, un, ud, p) ==
    ShortestScaled(m, e, n, p, BigMul(un, BigPow10(-p)), BigMul(ud, BigPow10(p)))

\* a quarter of the unit in the last place is un / ud
ShortestPowers(m, e, n, un, ud) ==
    ShortestPlaced(m, e, n, un, ud, DecimalLead(BigMul(un, DigitsOf(4 * m)), ud) - n)

\* the shortest decimal c * 10^p, of n digits or more, that rounds to m * 2^e,
\* and of those of that length the nearest one, the upper one at a tie
\* (flt2dec's format_shortest); the ends of the range are included when m is even
ShortestFrom(m, e, n) == ShortestPowers(m, e, n, BigPow2(e - 2), BigPow2(2 - e))

RECURSIVE NormalDigits(_, _)
\* digits * 10^ex without the zeros at either end of digits
NormalDigits(digits, ex) ==
    IF Len(digits) > 1 /\ digits[1] = 0 THEN NormalDigits(Tail(digits), ex)
    ELSE IF Len(digits) > 1 /\ digits[Len(digits)] = 0
    THEN NormalDigits(SubSeq(digits, 1, Len(digits) - 1), ex + 1)
    ELSE [digits |-> digits, ex |-> ex]

\* the shortest decimal s, with its sign
F32Shortest(neg, s) == Canon(neg, DigitsOf(s.c), s.p)

\* the f32 r, with its sign, by its shortest decimal
F32Rounded(neg, r) ==
    IF r.tag = "zero" THEN F32Zero(neg)
    ELSE IF r.tag = "inf" THEN F32Inf(neg)
    ELSE F32Shortest(neg, ShortestFrom(r.m, r.e, 1))

\* the f32 nearest to d.digits * 10^d.ex, digits without zeros at the ends.
\* A decimal of at most six significant digits well inside the normal range
\* is itself the shortest decimal of the f32 nearest to it (FLT_DIG = 6); one
\* of 40 digits or more before the point is beyond f32::MAX and one below
\* 10^-46 is nearer 0 than the least f32; any other decimal is rounded.
F32Normal(neg, d) ==
    IF d.digits = <<0>> THEN F32Zero(neg)
    ELSE IF Len(d.digits) + d.ex > 39 THEN F32Inf(neg)
    ELSE IF Len(d.digits) + d.ex < -45 THEN F32Zero(neg)
    ELSE IF Len(d.digits) <= 6 /\ Len(d.digits) + d.ex >= -36 /\ Len(d.digits) + d.ex <= 38
    THEN Canon(neg, d.digits, d.ex)
    ELSE F32Rounded(neg, RoundF32(d.digits \o (IF d.ex > 0 THEN Zeros(d.ex) ELSE <<>>),
                                  BigPow10(-d.ex)))

\* the f32 nearest to digits * 10^ex
F32Decimal(neg, digits, ex) ==
    F32Normal(neg, NormalDigits(IF digits = <<>> THEN <<0>> ELSE digits, ex))

\* the f32 nearest to the decimal with the given digits
F32(neg, intDigits, fracDigits) ==
    F32Decimal(neg, intDigits \o fracDigits, -Len(fracDigits))

F32IsZero(x) == F32IsFinite(x) /\ x.int = <<0>> /\ x.frac = <<>>
F32IsPositive(x) == ~F32IsNaN(x) /\ ~x.neg /\ ~F32IsZero(x)
F32IsNegative(x) == ~F32IsNaN(x) /\ x.neg /\ ~F32IsZero(x)
F32Neg(x) == IF F32IsNaN(x) THEN x ELSE [x EXCEPT !.neg = ~x.neg]
F32One == [neg |-> FALSE, int |-> <<1>>, frac |-> <<>>]

RECURSIVE DigitRun(_, _)
\* the number of decimal digits of s from position i on
DigitRun(s, i) ==
    IF i <= Len(s) /\ IsDigit(s[i]) THEN 1 + DigitRun(s, i + 1) ELSE 0

RECURSIVE ExponentValue(_, _)
\* the exponent's digits, no longer added up once the sum has passed 2^16
ExponentValue(s, acc) ==
    IF s = <<>> THEN acc
    ELSE ExponentValue(Tail(s), IF acc < 65536 THEN 10 * acc + (s[1] - 48) ELSE acc)

\* u8::to_ascii_lowercase
Lower(s) == [i \in 1..Len(s) |-> IF s[i] >= 65 /\ s[i] <= 90 THEN s[i] + 32 ELSE s[i]]

\* the digits of a text of digits
DigitValues(d) == [i \in 1..Len(d) |-> d[i] - 48]

\* "inf", "infinity" and "nan", in either case
ParseSpecial(neg, body) ==
    IF Lower(body) \in {<<105, 110, 102>>, <<105, 110, 102, 105, 110, 105, 116, 121>>}
    THEN [tag |-> "Ok", value |-> F32Inf(neg)]
    ELSE IF Lower(body) = <<110, 97, 110>>
    THEN [tag |-> "Ok", value |-> F32NaN]
    ELSE [tag |-> "Err"]

\* ni and nf digits around the point, the ne digits of the exponent from first
\* on: a number when it has a digit, its exponent has one, and nothing follows
ParseNumber(neg, body, ni, nf, hasExp, expNeg, first, ne) ==
    IF /\ ni + nf >= 1
       /\ IF hasExp THEN ne >= 1 /\ first + ne - 1 = Len(body)
          ELSE first = Len(body) + 2
    THEN [tag |-> "Ok",
          value |-> F32Decimal(
              neg,
              DigitValues(SubSeq(body, 1, ni)) \o DigitValues(SubSeq(body, ni + 2, ni + 1 + nf)),
              (IF expNeg THEN -1 ELSE 1)
                  * ExponentValue(SubSeq(body, first, first + ne - 1), 0) - nf)]
    ELSE ParseSpecial(neg, body)

ParseExponent(neg, body, ni, nf, hasExp, expNeg, first) ==
    ParseNumber(neg, body, ni, nf, hasExp, expNeg, first,
                IF hasExp THEN DigitRun(body, first) ELSE 0)

\* pos is the place after the digits: of 'e' or 'E', and of a sign after it
ParseMark(neg, body, ni, nf, pos) ==
    ParseExponent(neg, body, ni, nf,
                  pos <= Len(body) /\ body[pos] \in {101, 69},
                  pos < Len(body) /\ body[pos] \in {101, 69} /\ body[pos + 1] = 45,
                  IF pos < Len(body) /\ body[pos] \in {101, 69} /\ body[pos + 1] \in {43, 45}
                  THEN pos + 2 ELSE pos + 1)

ParseFraction(neg, body, ni, hasDot) ==
    ParseMark(neg, body, ni,
              IF hasDot THEN DigitRun(body, ni + 2) ELSE 0,
              ni + (IF hasDot THEN 1 + DigitRun(body, ni + 2) ELSE 0) + 1)

ParseInteger(neg, body, ni) ==
    ParseFraction(neg, body, ni, ni < Len(body) /\ body[ni + 1] = 46)

\* str::parse::<f32> (core::num::dec2flt): an optional sign, then digits with
\* an optional '.' and an optional exponent, at least one digit before it and
\* one in it; or "inf", "infinity", "nan" in either case
ParseUnsigned(neg, body) == ParseInteger(neg, body, DigitRun(body, 1))

ParseF32(token) ==
    ParseUnsigned(token # <<>> /\ token[1] = 45,
                  IF token # <<>> /\ token[1] \in {43, 45} THEN Tail(token) ELSE token)

\* format!("{}", x) of an f32
FormatF32(x) ==
    LET text(ds) == [i \in 1..Len(ds) |-> 48 + ds[i]]
    IN  IF F32IsNaN(x) THEN <<78, 97, 78>>
        ELSE (IF x.neg THEN <<45>> ELSE <<>>)
             \o (IF ~F32IsFinite(x) THEN <<105, 110, 102>>
                 ELSE text(x.int)
                      \o (IF x.frac = <<>> THEN <<>> ELSE <<46>> \o text(x.frac)))

(***************************************************************************)
(* read_until_space                                                        *)
(***************************************************************************)
RECURSIVE SkipWhitespace(_, _)
\* while start < buffer.len() && is_ascii_whitespace(buffer[start]) { start += 1 }
SkipWhitespace(buffer, start) ==
    IF start < Len(buffer) /\ IsAsciiWhitespace(buffer[start + 1])
    THEN SkipWhitespace(buffer, start + 1) ELSE start

RECURSIVE SkipToken(_, _)
\* while end < buffer.len() && !is_ascii_whitespace(buffer[end]) { end += 1 }
SkipToken(buffer, end) ==
    IF end < Len(buffer) /\ ~IsAsciiWhitespace(buffer[end + 1])
    THEN SkipToken(buffer, end + 1) ELSE end

\* read_until_space as it would be if it consumed the terminator of the token
read_until_space_EatsTerminator(buffer) ==
    LET start == SkipWhitespace(buffer, 0)
        end == SkipToken(buffer, start)
    IN  IF start >= Len(buffer) THEN Err(ErrEof)
        ELSE [tag |-> "Ok",
              token |-> SubSeq(buffer, start + 1, end),
              rest |-> SubSeq(buffer, end + 2, Len(buffer))]

read_until_space(buffer) ==
    LET start == SkipWhitespace(buffer, 0)
        end == SkipToken(buffer, start)
    IN  IF start >= Len(buffer) THEN Err(ErrEof)
        ELSE IF end > Len(buffer) THEN Err(ErrEof)
        ELSE [tag |-> "Ok",
              token |-> SubSeq(buffer, start + 1, end),
              rest |-> SubSeq(buffer, end + 1, Len(buffer))]


(***************************************************************************)
(* PFM and PFMBuilder                                                      *)
(***************************************************************************)
Ok(pfm) == [tag |-> "Ok", pfm |-> pfm]

\* let num_channels = if color { 3 } else { 1 }
Channels(color) == IF color THEN <<3>> ELSE <<1>>

PFMBuilder_new ==
    [width |-> <<0>>, height |-> <<0>>, color |-> TRUE, scale_factor |-> F32One,
     endian |-> "Little", data |-> <<>>]

\* assert!(width > 0 && height > 0)
PFMBuilder_size(self, width, height) ==
    IF width # <<0>> /\ height # <<0>>
    THEN [self EXCEPT !.width = width, !.height = height]
    ELSE Panic

PFMBuilder_color(self, color) == [self EXCEPT !.color = color]

\* assert!(scale != 0.0); a NaN is not 0.0, not above it and not below it
PFMBuilder_scale(self, scale) ==
    IF F32IsZero(scale) THEN Panic
    ELSE IF F32IsPositive(scale)
    THEN [self EXCEPT !.endian = "Big", !.scale_factor = scale]
    ELSE IF F32IsNegative(scale)
    THEN [self EXCEPT !.endian = "Little", !.scale_factor = F32Neg(scale)]
    ELSE self

PFMBuilder_data(self, samples) == [self EXCEPT !.data = samples]

\* if self.0.data.len() != num_channels * num_pixels
BuildCompare(self, checks, num_pixels, total) ==
    IF checks /\ (num_pixels.overflowed \/ total.overflowed) THEN Panic
    ELSE IF Usize(Len(self.data)) # total.value THEN Err(ErrBuild)
    ELSE Ok(self)

\* num_channels * num_pixels
BuildCounted(self, checks, num_pixels) ==
    BuildCompare(self, checks, num_pixels,
                 Checked(BigMul(Channels(self.color), num_pixels.value)))

\* num_pixels = width * height, then the comparison
PFMBuilder_build(self, checks) ==
    BuildCounted(self, checks, Checked(BigMul(self.width, self.height)))

(***************************************************************************)
(* encode                                                                  *)
(***************************************************************************)
Reverse(s) == [i \in 1..Len(s) |-> s[Len(s) + 1 - i]]

\* write_f32 as it would be with the byte order of the machine for every image
write_f32_NativeOrder(endian, sample) == Reverse(sample)

\* WriteBytesExt::write_f32::<BigEndian | LittleEndian>
write_f32(endian, sample) == IF endian = "Big" THEN sample ELSE Reverse(sample)

\* the outcome of the three operations of a cursor
CursorSum(rw, rwc, sum) ==
    [value |-> sum.value, overflowed |-> rw.overflowed \/ rwc.overflowed \/ sum.overflowed]

\* ... + col
CursorChannels(rw, rwc, col) == CursorSum(rw, rwc, Checked(BigAdd(rwc.value, col)))

\* ... * num_channels
CursorColumns(rw, num_channels, col) ==
    CursorChannels(rw, Checked(BigMul(rw.value, num_channels)), col)

\* row * width * num_channels + col: what is left of it in a usize, and
\* whether one of its three operations overflowed
Cursor(row, width, num_channels, col) ==
    CursorColumns(Checked(BigMul(row, width)), num_channels, col)

\* buffer.write_f32(pfm.data[cursor]), then the columns that follow
EncodeWrite(pfm, cursor, rest) ==
    IF rest.tag # "Ok" THEN rest
    ELSE [tag |-> "Ok",
          bytes |-> write_f32(pfm.endian, pfm.data[NatOf(cursor.value) + 1]) \o rest.bytes]

RECURSIVE EncodeCols(_, _, _, _)
\* pfm.data[cursor]
EncodeIndex(pfm, row, col, checks, cursor) ==
    IF checks /\ cursor.overflowed THEN Panic
    ELSE IF BigLeq(Usize(Len(pfm.data)), cursor.value)
    THEN Panic    \* pfm.data[cursor] out of range
    ELSE EncodeWrite(pfm, cursor, EncodeCols(pfm, row, BigAdd(col, <<1>>), checks))

\* 0..(pfm.width * num_channels)
EncodeRange(pfm, row, col, checks, cols) ==
    IF checks /\ cols.overflowed THEN Panic
    ELSE IF BigLeq(cols.value, col) THEN [tag |-> "Ok", bytes |-> <<>>]
    ELSE EncodeIndex(pfm, row, col, checks, Cursor(row, pfm.width, Channels(pfm.color), col))

\* for col in col..(width * num_channels): write data[row * width * num_channels + col]
EncodeCols(pfm, row, col, checks) ==
    EncodeRange(pfm, row, col, checks, Checked(BigMul(pfm.width, Channels(pfm.color))))

\* the bytes of a row and of the rows written after it
EncodeJoin(cols, rest) ==
    IF cols.tag # "Ok" THEN cols
    ELSE IF rest.tag # "Ok" THEN rest
    ELSE [tag |-> "Ok", bytes |-> cols.bytes \o rest.bytes]

\* the bytes of a row and of the rows written before it
EncodeJoin_Before(cols, above) ==
    IF cols.tag # "Ok" THEN cols
    ELSE IF above.tag # "Ok" THEN above
    ELSE [tag |-> "Ok", bytes |-> above.bytes \o cols.bytes]

RECURSIVE EncodeRows_TopDown(_, _, _)
\* the rows as they would be written without .rev(): for row in 0..n
EncodeRows_TopDown(pfm, n, checks) ==
    IF n = <<0>> THEN [tag |-> "Ok", bytes |-> <<>>]
    ELSE EncodeJoin_Before(EncodeCols(pfm, BigSub(n, <<1>>), <<0>>, checks),
                           EncodeRows_TopDown(pfm, BigSub(n, <<1>>), checks))

RECURSIVE EncodeRows(_, _, _)
\* for row in (0..n).rev()
EncodeRows(pfm, n, checks) ==
    IF n = <<0>> THEN [tag |-> "Ok", bytes |-> <<>>]
    ELSE EncodeJoin(EncodeCols(pfm, BigSub(n, <<1>>), <<0>>, checks),
                    EncodeRows(pfm, BigSub(n, <<1>>), checks))

\* Vec::reserve panics ("capacity overflow") beyond isize::MAX bytes
CapacityOverflows(n) == BigLeq(BigPow2(63), n)

\* the header, then the rows
EncodeBuffer(pfm, rows) ==
    IF rows.tag # "Ok" THEN rows
    ELSE [tag |-> "Ok",
          bytes |-> (IF pfm.color THEN <<80, 70>> ELSE <<80, 102>>) \o <<10>>
                    \o FormatUsize(pfm.width) \o <<32>>
                    \o FormatUsize(pfm.height) \o <<10>>
                    \o FormatF32(IF pfm.endian = "Little" THEN F32Neg(pfm.scale_factor)
                                 ELSE pfm.scale_factor) \o <<10>>
                    \o rows.bytes]

\* buffer.reserve(pfm.width * pfm.height * num_channels * 4), then the loops
EncodeReserve(pfm, checks, capacity) ==
    IF checks /\ capacity.overflowed THEN Panic
    ELSE IF CapacityOverflows(capacity.value) THEN Panic
    ELSE EncodeBuffer(pfm, EncodeRows(pfm, pfm.height, checks))

\* if pfm.width * pfm.height * num_channels != pfm.data.len()
EncodeCompare(pfm, checks, pixels, total) ==
    IF checks /\ (pixels.overflowed \/ total.overflowed) THEN Panic
    ELSE IF total.value # Usize(Len(pfm.data)) THEN Err(ErrEncodeSize)
    ELSE EncodeReserve(pfm, checks, Checked(BigMul(total.value, <<4>>)))

EncodeCounted(pfm, checks, pixels) ==
    EncodeCompare(pfm, checks, pixels, Checked(BigMul(pixels.value, Channels(pfm.color))))

encode(pfm, checks) ==
    IF pfm.width = <<0>> \/ pfm.height = <<0>> THEN Err(ErrEncodeDim)
    ELSE IF F32IsZero(pfm.scale_factor) THEN Err(ErrEncodeScale)
    ELSE EncodeCounted(pfm, checks, Checked(BigMul(pfm.width, pfm.height)))

(***************************************************************************)
(* parse_header                                                            *)
(***************************************************************************)
\* match s.parse() { Ok(v) => Ok(v), Err(_) => Err(err_msg) }
ParsedOr(r, err_msg) == IF r.tag = "Ok" THEN r ELSE Err(err_msg)

parse_token_usize(buffer, err_msg) == ParsedOr(ParseUsize(buffer), err_msg)

parse_token_f32(buffer, err_msg) == ParsedOr(ParseF32(buffer), err_msg)

\* the scale parsed: lines 250-257
ParseScaleValue(sized, t, scale) ==
    IF scale.tag # "Ok" THEN scale
    ELSE IF F32IsZero(scale.value) THEN Err(ErrScale)
    ELSE IF Len(t.rest) < 1 THEN Panic    \* &buffer[1..] of an empty slice
    ELSE [tag |-> "Ok",
          builder |-> PFMBuilder_scale(sized, scale.value),
          rest |-> Tail(t.rest)]

\* the scale token: line 249
ParseScaleToken(sized, t) ==
    IF t.tag # "Ok" THEN t ELSE ParseScaleValue(sized, t, parse_token_f32(t.token, ErrScale))

\* the scale token and what follows it: lines 247-257
ParseScale(sized, buffer) == ParseScaleToken(sized, read_until_space(buffer))

\* the height parsed: lines 241-245
ParseHeightValue(colored, width, th, height) ==
    IF height.tag # "Ok" THEN height
    ELSE IF height.value = <<0>> THEN Err(ErrHeight)
    ELSE ParseScale(PFMBuilder_size(colored, width.value, height.value), th.rest)

\* the height token: line 240
ParseHeightToken(colored, width, th) ==
    IF th.tag # "Ok" THEN th
    ELSE ParseHeightValue(colored, width, th, parse_token_usize(th.token, ErrHeight))

\* the width parsed: lines 233-237
ParseWidthValue(colored, tw, width) ==
    IF width.tag # "Ok" THEN width
    ELSE IF width.value = <<0>> THEN Err(ErrWidth)
    ELSE ParseHeightToken(colored, width, read_until_space(tw.rest))

\* the width token: line 232
ParseWidthToken(colored, tw) ==
    IF tw.tag # "Ok" THEN tw
    ELSE ParseWidthValue(colored, tw, parse_token_usize(tw.token, ErrWidth))

\* the width and height tokens: lines 231-245
ParseSize(colored, buffer) == ParseWidthToken(colored, read_until_space(buffer))

\* the magic token: lines 217-229
ParseMagic(t) ==
    IF t.tag # "Ok" THEN t
    ELSE IF t.token[1] # 80 THEN Err(ErrMagic1)
    ELSE IF Len(t.token) < 2 THEN Panic    \* header_pf[1] out of range
    ELSE IF t.token[2] = 70 \/ t.token[2] = 102
    THEN ParseSize(PFMBuilder_color(PFMBuilder_new, t.token[2] = 70), t.rest)
    ELSE Err(ErrMagic2)

parse_header(buffer) == ParseMagic(read_until_space(buffer))

(***************************************************************************)
(* decode                                                                  *)
(***************************************************************************)
\* ReadBytesExt::read_f32_into::<BigEndian | LittleEndian>: n samples off the front
read_f32_into(endian, buffer, n) ==
    IF Len(buffer) < 4 * n THEN Err("File data is broken")
    ELSE [tag |-> "Ok",
          data |-> [i \in 1..n |->
                      LET word == SubSeq(buffer, 4 * i - 3, 4 * i)
                      IN  IF endian = "Big" THEN word ELSE Reverse(word)]]

\* data.swap(a, b), a and b counted from 0
Swap(samples, a, b) ==
    [samples EXCEPT ![a + 1] = samples[b + 1], ![b + 1] = samples[a + 1]]

RECURSIVE SwapCols(_, _, _, _, _, _, _)
\* data.swap(a, b), then the columns that follow
SwapAt(data, row, col, width, height, num_channels, checks, a, b) ==
    IF checks /\ (a.overflowed \/ b.overflowed) THEN Panic
    ELSE IF BigLeq(Usize(Len(data)), a.value) \/ BigLeq(Usize(Len(data)), b.value)
    THEN Panic    \* data.swap out of range
    ELSE SwapCols(Swap(data, NatOf(a.value), NatOf(b.value)),
                  row, BigAdd(col, <<1>>), width, height, num_channels, checks)

\* 0..(width * num_channels)
SwapRange(data, row, col, width, height, num_channels, checks, cols) ==
    IF checks /\ cols.overflowed THEN Panic
    ELSE IF BigLeq(cols.value, col) THEN [tag |-> "Ok", data |-> data]
    ELSE SwapAt(data, row, col, width, height, num_channels, checks,
                Cursor(row, width, num_channels, col),
                Cursor(BigSub(BigSub(height, <<1>>), row), width, num_channels, col))

\* for col in col..(width * num_channels): swap the samples of row and height - 1 - row
SwapCols(data, row, col, width, height, num_channels, checks) ==
    SwapRange(data, row, col, width, height, num_channels, checks,
              Checked(BigMul(width, num_channels)))

RECURSIVE FlipRows(_, _, _, _, _, _)
\* the rows after a row whose columns were swapped
FlipNext(swapped, row, width, height, num_channels, checks) ==
    IF swapped.tag # "Ok" THEN swapped
    ELSE FlipRows(swapped.data, BigAdd(row, <<1>>), width, height, num_channels, checks)

\* for row in row..height { if row >= height - 1 - row { break; } ... }
FlipRows(data, row, width, height, num_channels, checks) ==
    IF BigLeq(height, row) THEN [tag |-> "Ok", data |-> data]
    ELSE IF BigLeq(BigSub(BigSub(height, <<1>>), row), row)
    THEN [tag |-> "Ok", data |-> data]
    ELSE FlipNext(SwapCols(data, row, <<0>>, width, height, num_channels, checks),
                  row, width, height, num_channels, checks)

\* builder.data(data).build()
DecodeBuild(hdr, checks, flipped) ==
    IF flipped.tag # "Ok" THEN flipped
    ELSE PFMBuilder_build(PFMBuilder_data(hdr.builder, flipped.data), checks)

\* the flip of the rows read
DecodeFlip(hdr, checks, read) ==
    IF read.tag # "Ok" THEN read
    ELSE DecodeBuild(hdr, checks,
                     FlipRows(read.data, <<0>>, hdr.builder.width, hdr.builder.height,
                              Channels(hdr.builder.color), checks))

\* if num_pixels * num_channels != buffer.len() / 4, then the read
DecodeCompare(hdr, checks, num_pixels, total) ==
    IF checks /\ (num_pixels.overflowed \/ total.overflowed) THEN Panic
    ELSE IF total.value # Usize(Len(hdr.rest) \div 4) THEN Err(ErrDecodeSize)
    ELSE DecodeFlip(hdr, checks,
                    read_f32_into(hdr.builder.endian, hdr.rest, NatOf(total.value)))

DecodeCounted(hdr, checks, num_pixels) ==
    DecodeCompare(hdr, checks, num_pixels,
                  Checked(BigMul(num_pixels.value, Channels(hdr.builder.color))))

\* parse_header(buffer)?, then num_pixels = width * height
DecodeHeader(hdr, checks) ==
    IF hdr.tag # "Ok" THEN hdr
    ELSE DecodeCounted(hdr, checks, Checked(BigMul(hdr.builder.width, hdr.builder.height)))

decode(buffer, checks) == DecodeHeader(parse_header(buffer), checks)

\* PFM::read_from: read_to_end of the reader fails, or yields the bytes
PFM_read_from(reader, checks) ==
    IF reader.fails THEN Err(ErrRead)
    ELSE IF Len(reader.bytes) = 0 THEN Err("Empty file")
    ELSE decode(reader.bytes, checks)

\* the buffer of encode handed to the writer: write_all, then flush. A writer
\* that is limited takes writer.room bytes and fails at the next one: write_all
\* fails on it and leaves it the bytes it took; when the writer is buffered
\* (a BufWriter, its buffer large enough for the bytes) write_all fills the
\* buffer and it is the flush that fails. touched: the writer exists, written:
\* what it holds in the end
WriteBuffer(buffer, writer) ==
    IF buffer.tag # "Ok" THEN [result |-> buffer, touched |-> TRUE, written |-> <<>>]
    ELSE IF writer.limited /\ Len(buffer.bytes) > writer.room
    THEN [result |-> Err(IF writer.buffered THEN ErrFlush ELSE ErrWrite),
          touched |-> TRUE,
          written |-> SubSeq(buffer.bytes, 1, writer.room)]
    ELSE IF writer.flush = "Err"
    THEN [result |-> Err(ErrFlush), touched |-> TRUE, written |-> buffer.bytes]
    ELSE [result |-> [tag |-> "Ok"], touched |-> TRUE, written |-> buffer.bytes]

\* PFM::write_into: the result, and the bytes the writer has taken
PFM_write_into(self, writer, checks) == WriteBuffer(encode(self, checks), writer)

(***************************************************************************)
(* PXM::save and PXM::load (src/src/lib.rs)                                *)
(***************************************************************************)
\* path.extension(), e.to_str() and to_lowercase(): a path has no extension,
\* one that is no UTF-8, or one that is a text
PathExtension(path) ==
    IF path.tag = "None" THEN Err("Unable to extract the file extension")
    ELSE IF ~path.utf8 THEN Err("Invalid file extension")
    ELSE [tag |-> "Ok", ext |-> Lower(path.ext)]

\* PXM::save: File::create makes the file or empties it, then write_into.
\* touched: the file was created or emptied, written: what it holds
PXM_save(self, path, create, writer, checks) ==
    IF PathExtension(path).tag # "Ok"
    THEN [result |-> PathExtension(path), touched |-> FALSE, written |-> <<>>]
    ELSE IF PathExtension(path).ext # <<112, 102, 109>>
    THEN [result |-> Err("Unsupported file extension"), touched |-> FALSE, written |-> <<>>]
    ELSE IF create = "Err"
    THEN [result |-> Err("Unable to create pfm file"), touched |-> FALSE, written |-> <<>>]
    ELSE PFM_write_into(self, writer, checks)

\* PXM::load: File::open, then read_from
PXM_load(path, reader, checks) ==
    IF PathExtension(path).tag # "Ok" THEN PathExtension(path)
    ELSE IF PathExtension(path).ext # <<112, 102, 109>>
    THEN Err("Unsupported file extension")
    ELSE IF ~reader.opens THEN Err("Unable to open pfm file")
    ELSE PFM_read_from(reader, checks)

(***************************************************************************)
(* Inputs of the operations.                                               *)
(***************************************************************************)
\* the f32 sample 0x3f80kk(ff-kk): 1.0 plus a few units in the last places,
\* four different bytes, a different sample for every k
Sample(k) == <<63, 128, k, 255 - k>>

\* pixel data whose samples are all different, so that every permutation of
\* the samples shows: n samples, the first of them the NaN 0x7fc00001 or not
DataInputs ==
    {[i \in 1..n |-> IF nan /\ i = 1 THEN <<127, 192, 0, 1>> ELSE Sample(i)] :
        n \in 0..MaxData, nan \in BOOLEAN}

\* the small sizes, 0 among them, and 2^32 x 2^32, whose product is 2^64
SizeInputs ==
    {<<Usize(w), Usize(h)>> : w \in 0..MaxWidth, h \in 0..MaxHeight}
    \cup {<<BigPow2(32), BigPow2(32)>>}

\* 1, -1, 0.5, -2.5, the forbidden 0, 16777217 (no f32: the nearest one is
\* 16777216), +inf and NaN
ScaleInputs ==
    {F32(FALSE, <<1>>, <<>>), F32(TRUE, <<1>>, <<>>), F32(FALSE, <<0>>, <<5>>),
     F32(TRUE, <<2>>, <<5>>), F32(FALSE, <<0>>, <<>>),
     F32(FALSE, <<1, 6, 7, 7, 7, 2, 1, 7>>, <<>>), F32Inf(FALSE), F32NaN}

\* a writer takes every byte, or none or five of them before it fails; it is
\* buffered or not, and its flush fails or not
Writers ==
    {[limited |-> FALSE, room |-> 0, buffered |-> b, flush |-> f] :
        b \in BOOLEAN, f \in {"Ok", "Err"}}
    \cup {[limited |-> TRUE, room |-> r, buffered |-> b, flush |-> f] :
            r \in {0, 5}, b \in BOOLEAN, f \in {"Ok", "Err"}}

\* no extension, an extension that is no UTF-8, "pfm", "PFM", "Pfm" and "txt"
Paths ==
    {[tag |-> "None"], [tag |-> "Some", utf8 |-> FALSE]}
    \cup {[tag |-> "Some", utf8 |-> TRUE, ext |-> e] :
            e \in {<<112, 102, 109>>, <<80, 70, 77>>, <<80, 102, 109>>, <<116, 120, 116>>}}

\* "PF", "Pf", "P", "X", "PFx", "Px"
MagicTokens == {<<80, 70>>, <<80, 102>>, <<80>>, <<88>>, <<80, 70, 120>>, <<80, 120>>}

\* "1", "2", "0", "+1", "x", "18446744073709551616" (2^64)
SizeTokens ==
    {<<49>>, <<50>>, <<48>>, <<43, 49>>, <<120>>,
     <<49, 56, 52, 52, 54, 55, 52, 52, 48, 55, 51, 55, 48, 57, 53, 53, 49, 54, 49, 54>>}

\* "1", "-1", "1.0", "-1.0", "0.5", "-2.50", "0", "-0.0", "x", "1e1", "-inf",
\* "NaN"
ScaleTokens ==
    {<<49>>, <<45, 49>>, <<49, 46, 48>>, <<45, 49, 46, 48>>, <<48, 46, 53>>,
     <<45, 50, 46, 53, 48>>, <<48>>, <<45, 48, 46, 48>>, <<120>>,
     <<49, 101, 49>>, <<45, 105, 110, 102>>, <<78, 97, 78>>}

\* scales that are no f32 and are rounded to one: "16777217", "-0.1000000001",
\* "1e-46" (to 0), "1e39" (to inf), "3.4028236e38" (to inf), "8e-46"
RoundedScaleTokens ==
    {<<49, 54, 55, 55, 55, 50, 49, 55>>,
     <<45, 48, 46, 49, 48, 48, 48, 48, 48, 48, 48, 48, 49>>,
     <<49, 101, 45, 52, 54>>, <<49, 101, 51, 57>>,
     <<51, 46, 52, 48, 50, 56, 50, 51, 54, 101, 51, 56>>, <<56, 101, 45, 52, 54>>}

\* "\n", " ", "\r\n"
Separators == {<<10>>, <<32>>, <<13, 10>>}

\* the first n bytes of the big-endian samples Sample(1), Sample(2), ...
PayloadBytes(n) ==
    [i \in 1..n |-> Sample(((i - 1) \div 4) + 1)[((i - 1) % 4) + 1]]

\* headers whose sizes leave a usize when they are multiplied:
\* "PF\n6148914691236517206 2\n1\n" and four samples (3 * 2 * 6148914691236517206
\* = 2 * 2^64 + 4), "Pf\n4294967296 4294967296\n1\n" and no sample (2^32 * 2^32
\* = 2^64), "PF\n18446744073709551615 1\n1\n" and one sample
OverflowFiles ==
    {<<80, 70, 10>> \o FormatUsize(<<6, 1, 4, 8, 9, 1, 4, 6, 9, 1, 2, 3, 6, 5, 1, 7, 2, 0, 6>>)
        \o <<32, 50, 10, 49, 10>> \o PayloadBytes(16),
     <<80, 102, 10>> \o FormatUsize(BigPow2(32)) \o <<32>> \o FormatUsize(BigPow2(32))
        \o <<10, 49, 10>>,
     <<80, 70, 10>> \o FormatUsize(BigSub(UsizeModulus, <<1>>))
        \o <<32, 49, 10, 49, 10>> \o PayloadBytes(4)}

\* files that do not come from encode: headers cut after 0..4 tokens, and
\* complete headers followed by one separator byte and a payload
ExternalFiles ==
    {<<>>, <<10>>, <<32, 10>>}
    \cup {m \o tail : m \in MagicTokens, tail \in {<<>>, <<10>>}}
    \cup {m \o sep \o w \o tail :
            m \in {<<80, 70>>, <<80, 102>>}, sep \in Separators, w \in SizeTokens,
            tail \in {<<>>, <<10>>}}
    \cup {m \o sep \o w \o sep \o h \o tail :
            m \in {<<80, 70>>, <<80, 102>>}, sep \in Separators, w \in SizeTokens,
            h \in SizeTokens, tail \in {<<>>, <<10>>}}
    \cup {m \o <<10>> \o w \o <<32>> \o h \o <<10>> \o s :
            m \in MagicTokens, w \in SizeTokens, h \in SizeTokens, s \in ScaleTokens}
    \cup {<<80, 102>> \o sep \o w \o sep \o h \o sep \o s \o <<10>> \o PayloadBytes(n) :
            sep \in Separators, w \in {<<49>>, <<50>>}, h \in {<<49>>, <<50>>},
            s \in ScaleTokens, n \in 0..(4 * MaxWidth + MaxExtra)}
    \cup {<<80, 102, 10, 49, 32, 49, 10>> \o s \o <<10>> \o PayloadBytes(4) :
            s \in RoundedScaleTokens}
    \cup OverflowFiles

\* buffers handed to the tokenizer: space, line feed, vertical tab (no ASCII
\* whitespace for Rust), 'P' and '1'
TokBuffers == UNION {[1..n -> {32, 10, 11, 80, 49}] : n \in 0..MaxTokLen}

(***************************************************************************)
(* The caller of the builder and of the codec.                             *)
(***************************************************************************)
Init ==
    /\ overflow_checks \in BOOLEAN
    /\ phase = "building"
    /\ builder = PFMBuilder_new
    /\ calls = [size |-> None, color |-> None, scale |-> None, data |-> None]
    /\ built = None
    /\ encoded = None
    /\ file = <<>>
    /\ origin = "none"
    /\ decoded = None
    /\ tokInput = <<>>
    /\ tokResult = None
    /\ tokBuffer = <<>>

tokVars == <<tokInput, tokResult, tokBuffer>>

\* a setter that panics ends the program
Set(next, call) ==
    /\ phase = "building"
    /\ calls' = call
    /\ IF next = Panic
       THEN phase' = "aborted" /\ UNCHANGED builder
       ELSE builder' = next /\ UNCHANGED phase
    /\ UNCHANGED <<overflow_checks, built, encoded, file, origin, decoded, tokVars>>

Size ==
    \E size \in SizeInputs :
        Set(PFMBuilder_size(builder, size[1], size[2]),
            [calls EXCEPT !.size = [tag |-> "Some", width |-> size[1], height |-> size[2]]])

Color ==
    \E c \in BOOLEAN :
        Set(PFMBuilder_color(builder, c),
            [calls EXCEPT !.color = [tag |-> "Some", color |-> c]])

Scale ==
    \E s \in ScaleInputs :
        Set(PFMBuilder_scale(builder, s),
            [calls EXCEPT !.scale = [tag |-> "Some", scale |-> s]])

Data ==
    \E d \in DataInputs :
        Set(PFMBuilder_data(builder, d),
            [calls EXCEPT !.data = [tag |-> "Some", data |-> d]])

Build ==
    /\ phase = "building"
    /\ built' = PFMBuilder_build(builder, overflow_checks)
    /\ phase' = "built"
    /\ UNCHANGED <<overflow_checks, builder, calls, encoded, file, origin, decoded, tokVars>>

\* the file holds what the writer has taken; origin tells whether the file
\* holds all the bytes of encode ("encoded"), what a write that failed left
\* ("failed"), or does not exist ("none")
Written(r) ==
    /\ encoded' = r.result
    /\ file' = r.written
    /\ origin' = IF r.result.tag = "Ok" THEN "encoded"
                 ELSE IF r.touched THEN "failed"
                 ELSE "none"
    /\ phase' = "encoded"
    /\ UNCHANGED <<overflow_checks, builder, calls, built, decoded, tokVars>>

\* pfm.write_into(&mut writer)
WriteInto ==
    /\ phase = "built"
    /\ built.tag = "Ok"
    /\ \E writer \in Writers : Written(PFM_write_into(built.pfm, writer, overflow_checks))

\* PXM::PFM(pfm).save(path): a File is a writer that is not buffered and whose
\* flush does nothing
Save ==
    /\ phase = "built"
    /\ built.tag = "Ok"
    /\ \E path \in Paths, create \in {"Ok", "Err"}, writer \in Writers :
        /\ ~writer.buffered
        /\ writer.flush = "Ok"
        /\ Written(PXM_save(built.pfm, path, create, writer, overflow_checks))

\* the file loses its last bytes before it is read
Truncate ==
    /\ phase = "encoded"
    /\ origin = "encoded"
    /\ \E k \in 1..MaxExtra :
        /\ k <= Len(file)
        /\ file' = SubSeq(file, 1, Len(file) - k)
    /\ origin' = "truncated"
    /\ UNCHANGED <<overflow_checks, phase, builder, calls, built, encoded, decoded, tokVars>>

\* the file gains bytes at its end before it is read
Extend ==
    /\ phase = "encoded"
    /\ origin = "encoded"
    /\ \E k \in 1..MaxExtra : file' = file \o PayloadBytes(k)
    /\ origin' = "extended"
    /\ UNCHANGED <<overflow_checks, phase, builder, calls, built, encoded, decoded, tokVars>>

\* a file that some other program wrote
External ==
    /\ phase = "building"
    /\ builder = PFMBuilder_new
    /\ calls = [size |-> None, color |-> None, scale |-> None, data |-> None]
    /\ \E f \in ExternalFiles : file' = f
    /\ origin' = "external"
    /\ phase' = "encoded"
    /\ UNCHANGED <<overflow_checks, builder, calls, built, encoded, decoded, tokVars>>

\* PFM::read_from(&mut file), the read of the file failing or not
ReadFrom ==
    /\ phase = "encoded"
    /\ origin # "none"
    /\ \E fails \in BOOLEAN :
        decoded' = PFM_read_from([bytes |-> file, fails |-> fails], overflow_checks)
    /\ phase' = "decoded"
    /\ UNCHANGED <<overflow_checks, builder, calls, built, encoded, file, origin, tokVars>>

\* PXM::load(path): a file that does not exist cannot be opened, one that
\* exists is opened or not, and is read or not
Load ==
    /\ phase = "encoded"
    /\ \E path \in Paths, opens \in BOOLEAN, fails \in BOOLEAN :
        /\ origin = "none" => ~opens
        /\ decoded' = PXM_load(path, [opens |-> opens, bytes |-> file, fails |-> fails],
                               overflow_checks)
    /\ phase' = "decoded"
    /\ UNCHANGED <<overflow_checks, builder, calls, built, encoded, file, origin, tokVars>>

Next ==
    \/ Size
    \/ Color
    \/ Scale
    \/ Data
    \/ Build
    \/ WriteInto
    \/ Save
    \/ Truncate
    \/ Extend
    \/ External
    \/ ReadFrom
    \/ Load

Spec == Init /\ [][Next]_vars

(***************************************************************************)
(* The tokenizer on its own: read_until_space called on a buffer, then on   *)
(* the remainder it returned, as parse_header and test_read_until_space do. *)
(***************************************************************************)
TokStart ==
    /\ phase = "building"
    /\ \E b \in TokBuffers : tokBuffer' = b
    /\ phase' = "tokens"
    /\ UNCHANGED <<overflow_checks, builder, calls, built, encoded, file, origin, decoded,
                   tokInput, tokResult>>

TokRead ==
    /\ phase = "tokens"
    /\ tokResult.tag # "Err"
    /\ tokInput' = tokBuffer
    /\ tokResult' = read_until_space(tokBuffer)
    /\ tokBuffer' = IF tokResult'.tag = "Ok" THEN tokResult'.rest ELSE tokBuffer
    /\ UNCHANGED <<overflow_checks, phase, builder, calls, built, encoded, file, origin, decoded>>

TokNext ==
    \/ TokStart
    \/ TokRead

TokSpec == Init /\ [][TokNext]_vars

(***************************************************************************)
(* Properties.                                                             *)
(***************************************************************************)
\* f32::abs: the sign cleared, a NaN still a NaN
Abs(x) == IF F32IsNaN(x) THEN x ELSE [x EXCEPT !.neg = FALSE]

\* a valid image: at least one pixel, a positive scale, data of the right length
ValidImage(pfm) ==
    /\ pfm.width # <<0>>
    /\ pfm.height # <<0>>
    /\ F32IsPositive(pfm.scale_factor)
    /\ pfm.endian \in {"Big", "Little"}
    /\ Usize(Len(pfm.data)) = BigMul(BigMul(pfm.width, pfm.height), Channels(pfm.color))

\* encode returned the bytes: the write succeeded, or what failed is the path,
\* the creation of the file, or the writer that was handed the bytes
EncodeSucceeded ==
    \/ encoded.tag = "Ok"
    \/ /\ encoded.tag = "Err"
       /\ encoded.err \in {ErrWrite, ErrFlush, "Unable to create pfm file",
                           "Unsupported file extension", "Invalid file extension",
                           "Unable to extract the file extension"}

\* decode was not called: the path, the opening or the reading of the file
\* failed
ReaderFailed ==
    /\ decoded.tag = "Err"
    /\ decoded.err \in {ErrRead, "Unable to open pfm file", "Unsupported file extension",
                        "Invalid file extension", "Unable to extract the file extension"}

\* the four bytes of a sample, the first the most significant, are a NaN: an
\* exponent of all ones and a mantissa that is not 0
SampleIsNaN(s) ==
    /\ s[1] % 128 = 127
    /\ s[2] >= 128
    /\ (s[2] % 128 # 0 \/ s[3] # 0 \/ s[4] # 0)

\* the four bytes of a sample are 0.0 or -0.0
SampleIsZero(s) == s[1] % 128 = 0 /\ s[2] = 0 /\ s[3] = 0 /\ s[4] = 0

\* f32 == on samples: no NaN equals anything, 0.0 equals -0.0
SampleEq(s, t) ==
    /\ ~SampleIsNaN(s)
    /\ ~SampleIsNaN(t)
    /\ s = t \/ (SampleIsZero(s) /\ SampleIsZero(t))

\* f32 == on scales: the decimal of a finite f32 is its own, -0 equals 0
ScaleEq(x, y) ==
    /\ ~F32IsNaN(x)
    /\ ~F32IsNaN(y)
    /\ x = y \/ (F32IsZero(x) /\ F32IsZero(y))

\* == of PFM, as #[derive(PartialEq)] gives it: field by field
PFM_eq(a, b) ==
    /\ a.width = b.width
    /\ a.height = b.height
    /\ a.color = b.color
    /\ ScaleEq(a.scale_factor, b.scale_factor)
    /\ a.endian = b.endian
    /\ Len(a.data) = Len(b.data)
    /\ \A i \in 1..Len(a.data) : SampleEq(a.data[i], b.data[i])

\* a valid image was built and handed to write_into or save
RoundTripCase ==
    /\ phase \in {"encoded", "decoded"}
    /\ built.tag = "Ok"
    /\ ValidImage(built.pfm)

\* the file holds all the bytes encode returned, and decode was given them
Decoded == phase = "decoded" /\ origin = "encoded" /\ ~ReaderFailed

\* C1, as stated: every valid image is encoded successfully, and decoding the
\* bytes encode wrote succeeds with an image equal (==) to it.
C1_RoundTrip_AsStated ==
    RoundTripCase
    => /\ EncodeSucceeded
       /\ Decoded => decoded.tag = "Ok" /\ PFM_eq(decoded.pfm, built.pfm)

\* C1, amended: every valid image is encoded successfully, and decoding the
\* bytes encode wrote succeeds with an image of the same width, height,
\* colour, scale_factor and endian whose data are, sample by sample in the
\* same order, the same bit patterns; it is equal (==) to the image exactly
\* when no sample is a NaN.
C1_RoundTrip ==
    RoundTripCase
    => /\ EncodeSucceeded
       /\ Decoded
          => /\ decoded.tag = "Ok"
             /\ decoded.pfm = built.pfm
             /\ PFM_eq(decoded.pfm, built.pfm)
                <=> \A i \in 1..Len(built.pfm.data) : ~SampleIsNaN(built.pfm.data[i])

\* a little-endian image of three rows with a NaN sample and a fractional
\* scale came back
C1_Witness ==
    /\ phase = "decoded"
    /\ origin = "encoded"
    /\ ValidImage(built.pfm)
    /\ built.pfm.height = <<3>>
    /\ built.pfm.width = <<2>>
    /\ built.pfm.endian = "Little"
    /\ F32IsFinite(built.pfm.scale_factor)
    /\ built.pfm.scale_factor.frac # <<>>
    /\ SampleIsNaN(built.pfm.data[1])
    /\ decoded.tag = "Ok"
    /\ decoded.pfm = built.pfm

\* the fields the builder holds after the latest setter calls
LastSet ==
    [width |-> IF calls.size = None THEN <<0>> ELSE calls.size.width,
     height |-> IF calls.size = None THEN <<0>> ELSE calls.size.height,
     color |-> IF calls.color = None THEN TRUE ELSE calls.color.color,
     scale_factor |-> IF calls.scale = None THEN F32One ELSE Abs(calls.scale.scale),
     endian |-> IF calls.scale = None \/ F32IsNegative(calls.scale.scale)
                THEN "Little" ELSE "Big",
     data |-> IF calls.data = None THEN <<>> ELSE calls.data.data]

\* C3: build fails with DataLengthMismatch exactly when the data length is not
\* width * height * channels of the builder's fields, and otherwise returns
\* the image whose fields are the last values set, whatever the order of the
\* setter calls.
C3_BuildValidates ==
    (phase # "aborted" /\ built # None /\ origin # "external")
    => LET want == LastSet
           n == BigMul(BigMul(want.width, want.height), Channels(want.color))
       IN  /\ built.tag \in {"Ok", "Err"}
           /\ built.tag = "Err" <=> Usize(Len(want.data)) # n
           /\ built.tag = "Err" => built.err = ErrBuild
           /\ built.tag = "Ok" => built.pfm = want

\* the samples of a payload, in the order they are on disk
DiskSample(payload, endian, i) ==
    [j \in 1..4 |-> payload[4 * (i - 1) + (IF endian = "Big" THEN j ELSE 5 - j)]]

\* C7: the data of a decoded image are the samples on disk with the rows
\* flipped: row r from the top, of width * channels samples, is row
\* height - 1 - r on disk, the samples of a row in their order on disk.
C7_DecodeFlipsRows ==
    (phase = "decoded" /\ decoded.tag = "Ok")
    => LET pfm == decoded.pfm
           payload == parse_header(file).rest
           height == NatOf(pfm.height)
           rowLen == NatOf(BigMul(pfm.width, Channels(pfm.color)))
       IN  /\ Usize(Len(pfm.data))
                = BigMul(pfm.height, BigMul(pfm.width, Channels(pfm.color)))
           /\ \A r \in 0..(height - 1), c \in 0..(rowLen - 1) :
                pfm.data[r * rowLen + c + 1]
                    = DiskSample(payload, pfm.endian, (height - 1 - r) * rowLen + c + 1)

RECURSIVE DecimalText(_)
\* the decimal digits of a number, as text
DecimalText(n) ==
    IF n < 10 THEN <<48 + n>> ELSE Append(DecimalText(n \div 10), 48 + (n % 10))

\* the place of the first line feed of s after the place from
LineEnd(s, from) ==
    CHOOSE i \in (from + 1)..Len(s) :
        s[i] = 10 /\ \A j \in (from + 1)..(i - 1) : s[j] # 10

\* C8: for a valid image encode writes the magic line, the line of the width
\* and the height, the line of the signed scale (a decimal of the scale_factor,
\* with a minus sign exactly when the image is little-endian), and right after
\* its newline the samples, four bytes each in the byte order of the image,
\* from the last row to the first and from left to right in a row, and
\* nothing else.
C8_EncodeLayout ==
    (/\ phase \in {"encoded", "decoded"}
     /\ origin = "encoded"
     /\ built.tag = "Ok"
     /\ ValidImage(built.pfm))
    => LET pfm == built.pfm
           height == NatOf(pfm.height)
           rowLen == NatOf(pfm.width) * (IF pfm.color THEN 3 ELSE 1)
           n == height * rowLen
           head == (IF pfm.color THEN <<80, 70, 10>> ELSE <<80, 102, 10>>)
                   \o DecimalText(NatOf(pfm.width)) \o <<32>>
                   \o DecimalText(height) \o <<10>>
           end == LineEnd(file, Len(head))
           scale == SubSeq(file, Len(head) + 1, end - 1)
       IN  /\ Len(file) > Len(head)
           /\ SubSeq(file, 1, Len(head)) = head
           /\ \E i \in (Len(head) + 1)..Len(file) : file[i] = 10
           /\ scale # <<>>
           /\ \A i \in 1..Len(scale) : ~IsAsciiWhitespace(scale[i])
           /\ scale[1] = 45 <=> pfm.endian = "Little"
           /\ scale[1] # 43
           /\ ParseF32(scale)
                = [tag |-> "Ok",
                   value |-> IF pfm.endian = "Little" THEN F32Neg(pfm.scale_factor)
                             ELSE pfm.scale_factor]
           /\ Len(file) = end + 4 * n
           /\ \A r \in 0..(height - 1), c \in 0..(rowLen - 1), j \in 1..4 :
                file[end + 4 * ((height - 1 - r) * rowLen + c) + j]
                    = pfm.data[r * rowLen + c + 1][IF pfm.endian = "Big" THEN j ELSE 5 - j]

\* a little-endian colour image of three rows and a fractional scale was
\* encoded: "PF\n1 3\n-2.5\n" and nine samples
C8_Witness ==
    /\ phase = "encoded"
    /\ origin = "encoded"
    /\ encoded.tag = "Ok"
    /\ ValidImage(built.pfm)
    /\ built.pfm.color
    /\ built.pfm.height = <<3>>
    /\ built.pfm.endian = "Little"
    /\ built.pfm.scale_factor = F32(FALSE, <<2>>, <<5>>)
    /\ Len(file) = 48
    /\ SubSeq(file, 1, 12) = <<80, 70, 10, 49, 32, 51, 10, 45, 50, 46, 53, 10>>

\* the fourth token of a buffer
ScaleToken(buffer) ==
    LET t1 == read_until_space(buffer)
        t2 == read_until_space(t1.rest)
        t3 == read_until_space(t2.rest)
    IN  read_until_space(t3.rest).token

\* C9: for every scale that is not 0, a positive scale gives Big and a negative
\* scale gives Little, to the builder and in the header, and the scale_factor
\* stored is the absolute value of the scale, so that the scale_factor of a
\* decoded image is positive.
C9_EndianMapping ==
    /\ (phase \in {"building", "built"} /\ calls.scale # None)
       => LET s == calls.scale.scale
          IN  /\ F32IsPositive(s) => builder.endian = "Big"
              /\ F32IsNegative(s) => builder.endian = "Little"
              /\ builder.scale_factor = Abs(s)
    /\ (phase = "decoded" /\ decoded.tag = "Ok")
       => LET s == ParseF32(ScaleToken(file)).value
          IN  /\ F32IsPositive(s) => decoded.pfm.endian = "Big"
              /\ F32IsNegative(s) => decoded.pfm.endian = "Little"
              /\ decoded.pfm.scale_factor = Abs(s)
              /\ F32IsPositive(decoded.pfm.scale_factor)

Whitespace == {9, 10, 12, 13, 32}

\* C10: read_until_space skips the leading ASCII whitespace and returns the
\* longest run of other bytes that follows, with the rest of the buffer from
\* the byte after the run (the terminator stays in the rest); it fails with
\* UnexpectedEof exactly when the buffer holds no byte that is not whitespace.
C10_Tokenizer ==
    (phase = "tokens" /\ tokResult # None)
    => LET b == tokInput
           blank == \A i \in 1..Len(b) : b[i] \in Whitespace
       IN  /\ tokResult.tag \in {"Ok", "Err"}
           /\ tokResult.tag = "Err" <=> blank
           /\ tokResult.tag = "Err" => tokResult.err = ErrEof
           /\ tokResult.tag = "Ok" =>
                \E s \in 1..Len(b), e \in 1..Len(b) :
                    /\ s <= e
                    /\ \A i \in 1..(s - 1) : b[i] \in Whitespace
                    /\ \A i \in s..e : b[i] \notin Whitespace
                    /\ e < Len(b) => b[e + 1] \in Whitespace
                    /\ tokResult.token = SubSeq(b, s, e)
                    /\ tokResult.rest = SubSeq(b, e + 1, Len(b))

\* a token behind leading whitespace was read, its terminator left in the rest
C10_Witness ==
    /\ phase = "tokens"
    /\ tokResult.tag = "Ok"
    /\ Len(tokInput) = 4
    /\ tokInput[1] = 32
    /\ Len(tokResult.token) = 2
    /\ tokResult.rest = <<10>>

\* C2: when the header is valid, a payload whose length is not a multiple of
\* four, or is not four times width * height * channels, makes decode fail
\* with PayloadSizeMismatch.
C2_PayloadSizeChecked ==
    (phase = "decoded" /\ ~ReaderFailed /\ parse_header(file).tag = "Ok")
    => LET hdr == parse_header(file)
           n == BigMul(BigMul(hdr.builder.width, hdr.builder.height),
                       Channels(hdr.builder.color))
       IN  (Len(hdr.rest) % 4 # 0 \/ Usize(Len(hdr.rest) \div 4) # n)
           => decoded = [tag |-> "Err", err |-> ErrDecodeSize]

\* C4: every image build yields has a width and a height of at least one, and
\* encode rejects no image of the builder for its dimensions.
C4_BuiltHasPixels ==
    /\ built.tag = "Ok" => built.pfm.width # <<0>> /\ built.pfm.height # <<0>>
    /\ (built.tag = "Ok" /\ encoded # None)
       => encoded # [tag |-> "Err", err |-> ErrEncodeDim]

\* the file is a valid header that ends with the last byte of its scale token
EndsAfterScale(buffer) ==
    LET t1 == read_until_space(buffer)
        t2 == read_until_space(t1.rest)
        t3 == read_until_space(t2.rest)
        t4 == read_until_space(t3.rest)
    IN  /\ t1.tag = "Ok" /\ Len(t1.token) >= 2
        /\ t1.token[1] = 80 /\ t1.token[2] \in {70, 102}
        /\ t2.tag = "Ok" /\ ParseUsize(t2.token).tag = "Ok"
        /\ ParseUsize(t2.token).value # <<0>>
        /\ t3.tag = "Ok" /\ ParseUsize(t3.token).tag = "Ok"
        /\ ParseUsize(t3.token).value # <<0>>
        /\ t4.tag = "Ok" /\ ParseF32(t4.token).tag = "Ok" /\ ~F32IsZero(ParseF32(t4.token).value)
        /\ t4.rest = <<>>

\* C5: when the buffer ends right after the scale token, decode returns
\* UnexpectedEof as a value and does not panic.
C5_EofAfterScale ==
    (phase = "decoded" /\ ~ReaderFailed /\ EndsAfterScale(file))
    => decoded = [tag |-> "Err", err |-> ErrEof]

\* the first token of the buffer starts with "PF" or "Pf"
HasMagic(buffer) ==
    LET t == read_until_space(buffer)
    IN  /\ Len(t.token) >= 2
        /\ t.token[1] = 80
        /\ t.token[2] \in {70, 102}

\* C6: when the first token does not start with "PF" or "Pf", decode fails
\* with InvalidMagic as a value; "PF" makes the image colour, "Pf" monochrome.
C6_InvalidMagic ==
    (phase = "decoded" /\ ~ReaderFailed /\ read_until_space(file).tag = "Ok")
    => /\ ~HasMagic(file)
          => decoded.tag = "Err" /\ decoded.err \in {ErrMagic1, ErrMagic2}
       /\ (HasMagic(file) /\ decoded.tag = "Ok")
          => decoded.pfm.color = (read_until_space(file).token[2] = 70)

====
